---- MODULE Spec2Model ----
(***************************************************************************)
(* Model of the connection-pooling benchmark: db_manager.py (the CRUD      *)
(* operations of BaseDBManager over NoPoolManager / PoolManager) and       *)
(* main.py (run_crud_tests and the main program).                          *)
(*                                                                         *)
(* A CRUD call is a task that moves through the statements of its method:  *)
(* get_connection, execute, commit, rollback, close_connection.  The pool  *)
(* of PoolManager is psycopg2's SimpleConnectionPool, which takes no lock: *)
(* its getconn and putconn are therefore modelled statement by statement,  *)
(* so that worker threads interleave inside them.                          *)
(***************************************************************************)
EXTENDS Integers, Sequences, FiniteSets, TLC

\* ---------------------------------------------------------------- bounds
MaxN == 2          \* largest num_data_points explored
MaxW == 2          \* largest num_workers explored
MaxFaults == 1     \* store failures (connect / execute / commit) injected per behaviour
MaxPreempts == 1   \* thread switches inside the pool's unlocked pure-Python code per behaviour
MaxCalls == 3      \* CRUD calls issued by the direct-call driver (SpecCrud)
maxconn == 2       \* SimpleConnectionPool(1, 50): the maximum, scaled down from 50
minconn == 1       \* SimpleConnectionPool(1, 50): the minimum

Phases == <<"create", "read", "update", "delete">>

VARIABLES
    n,          \* num_data_points
    w,          \* num_workers
    mgr,        \* the manager in use: "nopool" | "pool"
    mpc,        \* position of the main thread
    phase,      \* index in Phases of the phase of run_crud_tests being run
    tasks,      \* the CRUD calls of the current phase (or of the direct-call driver)
    user_ids,   \* run_crud_tests: the ids collected from the create phase
    results,    \* run_crud_tests: the keys written to the results dict, in order
    pool,       \* PoolManager.pool (SimpleConnectionPool)
    conns,      \* the connection objects that are referenced somewhere
    rows,       \* committed rows of table users
    seq,        \* next value of the SERIAL sequence of users.id
    faults,     \* number of store failures injected so far
    sched,      \* the thread that is inside unlocked pool code, and the switches so far
    hist        \* history: what has been observed so far (for the properties)

vars == <<n, w, mgr, mpc, phase, tasks, user_ids, results, pool, conns, rows, seq, faults, sched, hist>>

cfgVars == <<n, w, mgr>>
runVars == <<mpc, phase, user_ids, results>>

\* ---------------------------------------------------------------- data
NoEmail == <<"", 0>>
NoRow == [id |-> 0, username |-> 0, email |-> NoEmail]

\* main.py:43-45: username = user_<uuid>, email = <username>@test.com.  The uuid
\* tokens are distinct per record and per run; record i of run r gets token (r, i).
Username(r, i) == (r - 1) * n + i
Email(u) == <<"test", u>>
\* main.py:63: f"updated_{dp['email']}"
UpdatedEmail(e) == <<"updated_" \o e[1], e[2]>>

RunOf(m) == IF m = "nopool" THEN 1 ELSE 2

IdleTask ==
    [op |-> "", a1 |-> 0, a2 |-> NoEmail, pc |-> "idle", conn |-> 0, key |-> 0,
     out |-> "", err |-> "", res |-> NoRow, got |-> 0, closes |-> 0, rel |-> 0]

Terminal(t) == t.pc \in {"returned", "raised"}
Running(t) == t.pc \notin {"idle", "queued", "returned", "raised", "done"}

\* ---------------------------------------------------------------- connections
NewConn == [open |-> TRUE, status |-> "idle", pending |-> <<>>]

SeqRange(s) == {s[i] : i \in DOMAIN s}
FunRange(f) == {f[x] : x \in DOMAIN f}

\* The connection objects something still refers to.
Live(ts, pl) ==
    ({ts[t].conn : t \in DOMAIN ts} \ {0}) \cup SeqRange(pl.free) \cup FunRange(pl.used)

\* Objects nothing refers to any more are freed (reference counting).
Collect(cs, ts, pl) == [c \in DOMAIN cs \cap Live(ts, pl) |-> cs[c]]

\* id(conn) of a new connection object: an address no live object has.
FreshConn == CHOOSE c \in 1..(Cardinality(DOMAIN conns) + 1) : c \notin DOMAIN conns

\* ---------------------------------------------------------------- the store
\* (mutant of Apply: a committed UPDATE is lost)
RECURSIVE Apply_DropsUpdate(_, _)
Apply_DropsUpdate(rs, pend) ==
    IF pend = <<>> THEN rs
    ELSE LET s == Head(pend)
             nrs == CASE s.kind = "ins" -> rs \cup {[id |-> s.id, username |-> s.u, email |-> s.e]}
                      [] s.kind = "upd" -> rs
                      [] s.kind = "del" -> {r \in rs : r.id # s.id}
         IN Apply_DropsUpdate(nrs, Tail(pend))

\* conn.commit(): the writes of a transaction, in order, applied to the rows.
RECURSIVE Apply(_, _)
Apply(rs, pend) ==
    IF pend = <<>> THEN rs
    ELSE LET s == Head(pend)
             nrs == CASE s.kind = "ins" -> rs \cup {[id |-> s.id, username |-> s.u, email |-> s.e]}
                      [] s.kind = "upd" -> {IF r.id = s.id THEN [r EXCEPT !.email = s.e] ELSE r : r \in rs}
                      [] s.kind = "del" -> {r \in rs : r.id # s.id}
         IN Apply(nrs, Tail(pend))

\* What a statement on connection c sees: the committed rows and its own transaction.
View(c) == Apply(rows, conns[c].pending)

Lookup(rs, id) == IF \E r \in rs : r.id = id THEN CHOOSE r \in rs : r.id = id ELSE NoRow

\* One SQL statement of task tr on connection c (cursor.execute of db_manager.py:28,
\* 42, 51, 64): whether it succeeds, the transaction's pending writes, the row the cursor
\* holds and the sequence afterwards.
ExecOutcome(tr, c) ==
    LET pend == conns[c].pending
        view == View(c)
    IN CASE tr.op = "create" ->
              \* nextval is taken before the unique indexes are checked
              LET dup == \E r \in view : r.username = tr.a1 \/ r.email = tr.a2
              IN [ok |-> ~dup,
                  pend |-> IF dup THEN pend
                           ELSE Append(pend, [kind |-> "ins", id |-> seq, u |-> tr.a1, e |-> tr.a2]),
                  res |-> [NoRow EXCEPT !.id = seq],
                  seq |-> seq + 1]
         [] tr.op = "read" ->
              [ok |-> TRUE, pend |-> pend, res |-> Lookup(view, tr.a1), seq |-> seq]
         [] tr.op = "update" ->
              LET hit == \E r \in view : r.id = tr.a1
                  dup == hit /\ \E r \in view : r.id # tr.a1 /\ r.email = tr.a2
              IN [ok |-> ~dup,
                  pend |-> IF hit /\ ~dup
                           THEN Append(pend, [kind |-> "upd", id |-> tr.a1, u |-> 0, e |-> tr.a2])
                           ELSE pend,
                  res |-> NoRow, seq |-> seq]
         [] tr.op = "delete" ->
              LET hit == \E r \in view : r.id = tr.a1
              IN [ok |-> TRUE,
                  pend |-> IF hit
                           THEN Append(pend, [kind |-> "del", id |-> tr.a1, u |-> 0, e |-> NoEmail])
                           ELSE pend,
                  res |-> NoRow, seq |-> seq]

\* The store makes a statement wait while another open transaction holds an uncommitted
\* write on the same unique key or on the same row.
Blocked(tr, c) ==
    \E c2 \in DOMAIN conns \ {c} : \E k \in DOMAIN conns[c2].pending :
        LET s == conns[c2].pending[k]
        IN CASE tr.op = "create" -> s.kind \in {"ins", "upd"} /\ (s.u = tr.a1 \/ s.e = tr.a2)
             [] tr.op = "update" -> \/ s.kind \in {"ins", "upd"} /\ s.e = tr.a2
                                    \/ s.kind \in {"upd", "del"} /\ s.id = tr.a1
             [] tr.op = "delete" -> s.kind \in {"upd", "del"} /\ s.id = tr.a1
             [] OTHER -> FALSE

\* ---------------------------------------------------------------- a CRUD call
Mutating(op) == op \in {"create", "update", "delete"}

\* The call leaves its method: the value is returned or the exception propagates.
Finish(tr) ==
    [tr EXCEPT !.pc = IF tr.out = "ok" THEN "returned" ELSE "raised", !.conn = 0, !.key = 0]

Raise(tr, e) == Finish([tr EXCEPT !.out = "err", !.err = e])

CallRecord(tr) ==
    [op |-> tr.op, a1 |-> tr.a1, a2 |-> tr.a2, out |-> tr.out, err |-> tr.err, res |-> tr.res]

\* The direct-call driver logs the calls that have finished, in order.
Observe(tr) ==
    IF mpc = "crud" THEN [hist EXCEPT !.log = Append(@, CallRecord(tr))] ELSE hist

\* Thread t takes a step.  inside: the step leaves t in the middle of getconn or putconn
\* with no blocking call before its next statement.  Another thread that runs while
\* sched.last is there has preempted it; MaxPreempts bounds how often that happens.
\* (A thread that blocks in connect, execute, commit, rollback or close releases the
\* interpreter lock: switches there are not counted.)
Turn(t, inside) ==
    /\ sched.last \in {0, t} \/ sched.preempts < MaxPreempts
    /\ sched' = [last |-> IF inside THEN t ELSE 0,
                 preempts |-> IF sched.last \in {0, t} THEN sched.preempts ELSE sched.preempts + 1]

\* The state change shared by every step that ends a call.
Leave(t, tr, cs, pl) ==
    LET ts == [tasks EXCEPT ![t] = tr]
    IN /\ tasks' = ts
       /\ pool' = pl
       /\ conns' = Collect(cs, ts, pl)
       /\ hist' = Observe(tr)
       /\ Turn(t, FALSE)

\* db_manager.py:75-76  NoPoolManager.get_connection: psycopg2.connect
NoPool_get_connection(t) ==
    /\ mgr = "nopool"
    /\ tasks[t].pc = "get"
    /\ \/ /\ tasks' = [tasks EXCEPT ![t].pc = "exec", ![t].conn = FreshConn, ![t].got = FreshConn]
          /\ conns' = (FreshConn :> NewConn) @@ conns
          /\ Turn(t, FALSE)
          /\ UNCHANGED <<pool, faults, hist>>
       \/ /\ faults < MaxFaults
          /\ faults' = faults + 1
          /\ Leave(t, Raise(tasks[t], "Store"), conns, pool)
    /\ UNCHANGED <<cfgVars, runVars, rows, seq>>

\* (mutant of Failed: read_user without its try/finally)
Failed_NoFinally(tr) ==
    IF Mutating(tr.op)
    THEN [tr EXCEPT !.out = "err", !.err = "Store", !.pc = "rollback"]
    ELSE Raise(tr, "Store")

\* What follows a failed statement or commit: the except clause of create_user,
\* update_user and delete_user; read_user has none and goes to its finally.
Failed(tr) ==
    [tr EXCEPT !.out = "err", !.err = "Store", !.pc = IF Mutating(tr.op) THEN "rollback" ELSE "close"]

\* db_manager.py:27-28, 41-43, 50-51, 63-64  conn.cursor(); cur.execute(...)
\* (read_user: and return cur.fetchone())
Execute(t) ==
    LET tr == tasks[t]
        c == tr.conn
        o == ExecOutcome(tr, c)
    IN /\ tr.pc = "exec"
       /\ IF ~conns[c].open \/ conns[c].status = "inerror"
          THEN \* InterfaceError: connection already closed / InFailedSqlTransaction
               /\ tasks' = [tasks EXCEPT ![t] = Failed(tr)]
               /\ UNCHANGED <<conns, seq, faults>>
          ELSE \/ /\ ~Blocked(tr, c)
                  /\ tasks' = [tasks EXCEPT ![t] =
                        IF o.ok
                        THEN [tr EXCEPT !.res = o.res, !.out = IF tr.op = "read" THEN "ok" ELSE "",
                                        !.pc = IF tr.op = "read" THEN "close" ELSE "commit"]
                        ELSE [Failed(tr) EXCEPT !.err = "UniqueViolation"]]
                  /\ conns' = [conns EXCEPT ![c].pending = o.pend,
                                            ![c].status = IF o.ok THEN "intrans" ELSE "inerror"]
                  /\ seq' = o.seq
                  /\ UNCHANGED faults
               \/ \* the store fails the statement
                  /\ faults < MaxFaults
                  /\ faults' = faults + 1
                  /\ tasks' = [tasks EXCEPT ![t] = Failed(tr)]
                  /\ conns' = [conns EXCEPT ![c].status = "inerror"]
                  /\ UNCHANGED seq
       /\ Turn(t, FALSE)
       /\ UNCHANGED <<cfgVars, runVars, pool, rows, hist>>

\* db_manager.py:29-30, 52, 65  conn.commit() (create_user: and return cur.fetchone()[0])
Commit(t) ==
    LET tr == tasks[t]
        c == tr.conn
    IN /\ tr.pc = "commit"
       /\ IF ~conns[c].open
          THEN /\ tasks' = [tasks EXCEPT ![t] = Failed(tr)]
               /\ UNCHANGED <<conns, rows, faults>>
          ELSE \/ /\ tasks' = [tasks EXCEPT ![t].out = "ok", ![t].pc = "close"]
                  /\ rows' = IF conns[c].status = "intrans" THEN Apply(rows, conns[c].pending) ELSE rows
                  /\ conns' = [conns EXCEPT ![c].pending = <<>>, ![c].status = "idle"]
                  /\ UNCHANGED faults
               \/ \* the store fails the commit: the transaction is aborted
                  /\ faults < MaxFaults
                  /\ faults' = faults + 1
                  /\ tasks' = [tasks EXCEPT ![t] = Failed(tr)]
                  /\ conns' = [conns EXCEPT ![c].pending = <<>>, ![c].status = "idle"]
                  /\ UNCHANGED rows
       /\ Turn(t, FALSE)
       /\ UNCHANGED <<cfgVars, runVars, pool, seq, hist>>

\* db_manager.py:31-34, 53-56, 66-69  except: conn.rollback(); raise e
\* (on a closed connection rollback itself raises; the call fails either way)
Rollback(t) ==
    LET tr == tasks[t]
        c == tr.conn
    IN /\ tr.pc = "rollback"
       /\ tasks' = [tasks EXCEPT ![t].pc = "close"]
       /\ conns' = IF conns[c].open
                   THEN [conns EXCEPT ![c].pending = <<>>, ![c].status = "idle"]
                   ELSE conns
       /\ Turn(t, FALSE)
       /\ UNCHANGED <<cfgVars, runVars, pool, rows, seq, faults, hist>>

\* db_manager.py:78-79  NoPoolManager.close_connection: conn.close(), from the finally
\* clause of the CRUD method, which then returns or re-raises.
NoPool_close_connection(t) ==
    LET tr == tasks[t]
        c == tr.conn
    IN /\ mgr = "nopool"
       /\ tr.pc = "close"
       /\ Leave(t, Finish([tr EXCEPT !.closes = @ + 1, !.rel = c]),
                [conns EXCEPT ![c].open = FALSE, ![c].pending = <<>>, ![c].status = "idle"], pool)
       /\ UNCHANGED <<cfgVars, runVars, rows, seq, faults>>

\* ---------------------------------------------------------------- the pool
\* psycopg2.pool.SimpleConnectionPool as PoolManager uses it (db_manager.py:84-93):
\* free is its list _pool, used its dict _used (key -> connection), rused its dict
\* _rused (id(connection) -> key), keys its counter _keys.
NoPool == [built |-> FALSE, closed |-> FALSE, free |-> <<>>, used |-> <<>>, rused |-> <<>>, keys |-> 0]

Without(f, x) == [y \in DOMAIN f \ {x} |-> f[y]]
With(f, x, v) == (x :> v) @@ f

\* db_manager.py:86-87  getconn, first statement: "if self.closed: raise", then
\* _getkey's "self._keys += 1"
Getconn_key(t) ==
    /\ mgr = "pool"
    /\ tasks[t].pc = "get"
    /\ IF pool.closed
       THEN Leave(t, Raise(tasks[t], "PoolClosed"), conns, pool)
       ELSE /\ tasks' = [tasks EXCEPT ![t].pc = "g_read"]
            /\ pool' = [pool EXCEPT !.keys = @ + 1]
            /\ Turn(t, TRUE)
            /\ UNCHANGED <<conns, hist>>
    /\ UNCHANGED <<cfgVars, runVars, rows, seq, faults>>

\* _getkey's "return self._keys", then "if key in self._used: return self._used[key]"
\* and the test "if self._pool:"
Getconn_read(t) ==
    LET key == pool.keys
        shared == key \in DOMAIN pool.used
    IN /\ tasks[t].pc = "g_read"
       /\ tasks' = [tasks EXCEPT ![t] =
             IF shared
             THEN [@ EXCEPT !.key = key, !.conn = pool.used[key], !.got = pool.used[key], !.pc = "exec"]
             ELSE [@ EXCEPT !.key = key, !.pc = IF pool.free # <<>> THEN "g_pop" ELSE "g_cap"]]
       /\ Turn(t, ~shared)
       /\ UNCHANGED <<cfgVars, runVars, pool, conns, rows, seq, faults, hist>>

\* "self._used[key] = conn = self._pool.pop(); self._rused[id(conn)] = key; return conn"
\* (pop of a list another thread has emptied meanwhile raises IndexError)
Getconn_pop(t) ==
    LET tr == tasks[t]
        c == pool.free[Len(pool.free)]
    IN /\ tr.pc = "g_pop"
       /\ IF pool.free = <<>>
          THEN Leave(t, Raise(tr, "IndexError"), conns, pool)
          ELSE /\ tasks' = [tasks EXCEPT ![t].conn = c, ![t].got = c, ![t].pc = "exec"]
               /\ pool' = [pool EXCEPT !.free = SubSeq(@, 1, Len(@) - 1),
                                       !.used = With(@, tr.key, c),
                                       !.rused = With(@, c, tr.key)]
               /\ Turn(t, FALSE)
               /\ UNCHANGED <<conns, hist>>
       /\ UNCHANGED <<cfgVars, runVars, rows, seq, faults>>

\* The capacity test of getconn: "len(self._used) == self.maxconn"
Exhausted(pl) == Cardinality(DOMAIN pl.used) = maxconn

\* else-branch: "if len(self._used) == self.maxconn: raise PoolError('connection pool
\* exhausted')", then _connect's "conn = psycopg2.connect(...)"
Getconn_cap(t) ==
    LET tr == tasks[t]
    IN /\ tr.pc = "g_cap"
       /\ IF Exhausted(pool)
          THEN /\ Leave(t, Raise(tr, "PoolExhausted"), conns, pool)
               /\ UNCHANGED faults
          ELSE \/ /\ tasks' = [tasks EXCEPT ![t].conn = FreshConn, ![t].pc = "g_reg"]
                  /\ conns' = (FreshConn :> NewConn) @@ conns
                  /\ Turn(t, FALSE)
                  /\ UNCHANGED <<pool, faults, hist>>
               \/ /\ faults < MaxFaults
                  /\ faults' = faults + 1
                  /\ Leave(t, Raise(tr, "Store"), conns, pool)
       /\ UNCHANGED <<cfgVars, runVars, rows, seq>>

\* _connect's "self._used[key] = conn; self._rused[id(conn)] = key" and the return
Getconn_reg(t) ==
    LET tr == tasks[t]
    IN /\ tr.pc = "g_reg"
       /\ tasks' = [tasks EXCEPT ![t].got = tr.conn, ![t].pc = "exec"]
       /\ pool' = [pool EXCEPT !.used = With(@, tr.key, tr.conn), !.rused = With(@, tr.conn, tr.key)]
       /\ Turn(t, FALSE)
       /\ UNCHANGED <<cfgVars, runVars, conns, rows, seq, faults, hist>>

\* db_manager.py:89-90  putconn, called from the finally clause: "if self.closed:
\* raise", "key = self._rused.get(id(conn)); if key is None: raise PoolError('trying to
\* put unkeyed connection')"
Putconn_key(t) ==
    LET tr == [tasks[t] EXCEPT !.closes = @ + 1, !.rel = tasks[t].conn]
    IN /\ mgr = "pool"
       /\ tr.pc = "close"
       /\ IF pool.closed
          THEN Leave(t, Raise(tr, "PoolClosed"), conns, pool)
          ELSE IF tr.conn \notin DOMAIN pool.rused
          THEN Leave(t, Raise(tr, "PoolUnkeyed"), conns, pool)
          ELSE /\ tasks' = [tasks EXCEPT ![t] = [tr EXCEPT !.key = pool.rused[tr.conn], !.pc = "p_ret"]]
               /\ Turn(t, TRUE)
               /\ UNCHANGED <<pool, conns, hist>>
       /\ UNCHANGED <<cfgVars, runVars, rows, seq, faults>>

\* "if len(self._pool) < self.minconn:" an open connection goes back to the pool, after
\* conn.rollback() unless it is idle, and a closed one is discarded; "else:
\* conn.close()"
Putconn_ret(t) ==
    LET tr == tasks[t]
        c == tr.conn
        keep == Len(pool.free) < minconn
        blocking == conns[c].open /\ (~keep \/ conns[c].status # "idle")
    IN /\ tr.pc = "p_ret"
       /\ tasks' = [tasks EXCEPT ![t].pc = IF keep /\ conns[c].open THEN "p_app" ELSE "p_del"]
       /\ conns' = IF keep
                   THEN IF conns[c].open
                        THEN [conns EXCEPT ![c].pending = <<>>, ![c].status = "idle"]
                        ELSE conns
                   ELSE [conns EXCEPT ![c].open = FALSE, ![c].pending = <<>>, ![c].status = "idle"]
       /\ Turn(t, ~blocking)
       /\ UNCHANGED <<cfgVars, runVars, pool, rows, seq, faults, hist>>

\* "self._pool.append(conn)"
Putconn_app(t) ==
    /\ tasks[t].pc = "p_app"
    /\ tasks' = [tasks EXCEPT ![t].pc = "p_del"]
    /\ pool' = [pool EXCEPT !.free = Append(@, tasks[t].conn)]
    /\ Turn(t, TRUE)
    /\ UNCHANGED <<cfgVars, runVars, conns, rows, seq, faults, hist>>

\* "del self._used[key]; del self._rused[id(conn)]" (KeyError when another thread has
\* removed the entry), then the CRUD method returns or re-raises
Putconn_del(t) ==
    LET tr == tasks[t]
        inUsed == tr.key \in DOMAIN pool.used
        inRused == tr.conn \in DOMAIN pool.rused
        pl == [pool EXCEPT !.used = IF inUsed THEN Without(@, tr.key) ELSE @,
                           !.rused = IF inUsed /\ inRused THEN Without(@, tr.conn) ELSE @]
    IN /\ tr.pc = "p_del"
       /\ Leave(t, IF inUsed /\ inRused THEN Finish(tr) ELSE Raise(tr, "KeyError"), conns, pl)
       /\ UNCHANGED <<cfgVars, runVars, rows, seq, faults>>

\* ---------------------------------------------------------------- run_crud_tests
\* The task of record i in phase p.
Tid(p, i) == (p - 1) * n + i
PhaseTasks(p) == {Tid(p, i) : i \in 1..n}
PhaseOf(t) == ((t - 1) \div n) + 1

\* (mutant of Submitted: the last record is left out)
Submitted_SkipsLast(p) == PhaseTasks(p) \ {Tid(p, n)}

\* main.py:50, 57, 63, 69: the calls a phase submits, one per data point / user id.
Submitted(p) == PhaseTasks(p)

\* The arguments of the call submitted for record i in phase p.
CallOf(p, i) ==
    LET u == Username(RunOf(mgr), i)
    IN CASE p = 1 -> [IdleTask EXCEPT !.op = "create", !.a1 = u, !.a2 = Email(u), !.pc = "queued"]
         [] p = 2 -> [IdleTask EXCEPT !.op = "read", !.a1 = user_ids[i], !.pc = "queued"]
         [] p = 3 -> [IdleTask EXCEPT !.op = "update", !.a1 = user_ids[i],
                                      !.a2 = UpdatedEmail(Email(u)), !.pc = "queued"]
         [] p = 4 -> [IdleTask EXCEPT !.op = "delete", !.a1 = user_ids[i], !.pc = "queued"]

\* main.py:49-50, 56-57, 62-63, 68-69: "with ThreadPoolExecutor(max_workers=num_workers)"
\* and the submission of the phase's calls (executor.submit / executor.map, which
\* submits every call before it returns).  A call that is queued and one that is not
\* yet submitted behave alike, so the submissions are one step.
SubmitPhase ==
    /\ mpc = "submit"
    /\ tasks' = [t \in DOMAIN tasks |->
                    IF t \in Submitted(phase) THEN CallOf(phase, t - (phase - 1) * n) ELSE tasks[t]]
    /\ mpc' = "wait"
    /\ UNCHANGED <<cfgVars, phase, user_ids, results, pool, conns, rows, seq, faults, sched, hist>>

\* (mutant of Start: a worker thread takes one call and exits, so only the first
\* num_workers calls of a phase are ever started)
Start_OneCallPerWorker(t) ==
    LET p == PhaseOf(t)
    IN /\ mpc # "crud"
       /\ tasks[t].pc = "queued"
       /\ \A t2 \in PhaseTasks(p) : t2 < t => tasks[t2].pc # "queued"
       /\ Cardinality({t2 \in PhaseTasks(p) : tasks[t2].pc # "queued"}) < w
       /\ tasks' = [tasks EXCEPT ![t].pc = "get"]
       /\ Turn(t, FALSE)
       /\ UNCHANGED <<cfgVars, runVars, pool, conns, rows, seq, faults, hist>>

\* A worker thread of the phase's executor takes the next call off its queue: at most
\* num_workers calls of a phase run at a time, in submission order.
Start(t) ==
    LET p == PhaseOf(t)
    IN /\ mpc # "crud"
       /\ tasks[t].pc = "queued"
       /\ \A t2 \in PhaseTasks(p) : t2 < t => tasks[t2].pc # "queued"
       /\ Cardinality({t2 \in PhaseTasks(p) : Running(tasks[t2])}) < w
       /\ tasks' = [tasks EXCEPT ![t].pc = "get"]
       /\ Turn(t, FALSE)
       /\ UNCHANGED <<cfgVars, runVars, pool, conns, rows, seq, faults, hist>>

\* (mutant of AllDone: the executor's exit drops the calls that are still queued, as
\* shutdown(cancel_futures=True) would)
AllDone_CancelsQueued(p) == \A t \in PhaseTasks(p) : ~Running(tasks[t])

\* (mutant of AllDone: the executor is shut down without waiting)
AllDone_NoWait(p) == TRUE

\* The end of the with block: ThreadPoolExecutor.__exit__ is shutdown(wait=True), which
\* returns when every submitted call has finished.
AllDone(p) == \A t \in PhaseTasks(p) : ~Running(tasks[t]) /\ tasks[t].pc # "queued"

\* Some call of phase p has raised.
AnyRaised(p) == \E t \in PhaseTasks(p) : tasks[t].pc = "raised"

\* main.py:51: "user_ids = [future.result() for future in futures]" re-raises the
\* exception of the first failed create call.  main.py:57, 63, 69: the iterator
\* executor.map returns is never consumed, so nothing is re-raised.
PhaseRaises(p) == p = 1 /\ AnyRaised(p)

\* What is kept of a finished call once its future is dropped.
Dropped(tr) == IF Terminal(tr) THEN [IdleTask EXCEPT !.pc = "done"] ELSE tr

\* (mutant of Collected: the ids are taken in the order the store handed them out, as
\* collecting results in completion order would)
Collected_InIdOrder ==
    LET ids == {tasks[Tid(1, i)].res.id : i \in 1..n}
    IN CHOOSE s \in [1..n -> ids] : \A i, j \in 1..n : i < j => s[i] < s[j]

\* main.py:51: "user_ids = [future.result() for future in futures]": the result of
\* the i-th submitted create call becomes user_ids[i].
Collected == [i \in 1..n |-> tasks[Tid(1, i)].res.id]

\* main.py:51-52, 58, 64, 70-72: leave the with block, record the phase's duration and
\* go on to the next phase, or return results after the delete phase.
JoinPhase ==
    /\ mpc = "wait"
    /\ AllDone(phase)
    /\ tasks' = [t \in DOMAIN tasks |-> Dropped(tasks[t])]
    /\ hist' = IF AnyRaised(phase) THEN [hist EXCEPT !.failed = @ \cup {phase}] ELSE hist
    /\ IF PhaseRaises(phase)
       THEN /\ mpc' = "crashed"
            /\ UNCHANGED <<phase, user_ids, results>>
       ELSE /\ user_ids' = IF phase = 1 THEN Collected ELSE user_ids
            /\ results' = Append(results, Phases[phase])
            /\ IF phase < 4
               THEN /\ phase' = phase + 1
                    /\ mpc' = "submit"
               ELSE /\ mpc' = IF mgr = "nopool" THEN "mkpool" ELSE "close_pool"
                    /\ UNCHANGED phase
    /\ UNCHANGED <<cfgVars, pool, conns, rows, seq, faults, sched>>

\* ---------------------------------------------------------------- the main program
\* The pool after SimpleConnectionPool(1, 50): minconn connections, here connection c.
NewPool(c) == [NoPool EXCEPT !.built = TRUE, !.free = <<c>>]

\* main.py:132-134 with db_manager.py:83-84: PoolManager() opens the pool's first
\* connection; then the pooled run starts with fresh data points.
MakePool ==
    /\ mpc = "mkpool"
    /\ \/ /\ pool' = NewPool(FreshConn)
          /\ conns' = (FreshConn :> NewConn) @@ conns
          /\ mgr' = "pool"
          /\ mpc' = "submit"
          /\ phase' = 1
          /\ tasks' = [t \in DOMAIN tasks |-> IdleTask]
          /\ user_ids' = <<>>
          /\ results' = <<>>
          /\ hist' = [hist EXCEPT !.failed = {}]
          /\ UNCHANGED faults
       \/ /\ faults < MaxFaults
          /\ faults' = faults + 1
          /\ mpc' = "crashed"
          /\ UNCHANGED <<mgr, phase, tasks, user_ids, results, pool, conns, hist>>
    /\ UNCHANGED <<n, w, rows, seq, sched>>

\* main.py:135 with db_manager.py:92-93: pool.closeall() closes the connections of
\* _pool and of _used and marks the pool closed.
close_pool ==
    /\ mpc = "close_pool"
    /\ IF pool.closed
       THEN /\ mpc' = "crashed"
            /\ UNCHANGED <<pool, conns>>
       ELSE /\ mpc' = "report"
            /\ pool' = [pool EXCEPT !.closed = TRUE]
            /\ conns' = [c \in DOMAIN conns |->
                            IF c \in SeqRange(pool.free) \cup FunRange(pool.used)
                            THEN [conns[c] EXCEPT !.open = FALSE, !.pending = <<>>, !.status = "idle"]
                            ELSE conns[c]]
    /\ hist' = [hist EXCEPT !.close_pool_calls = @ + 1]
    /\ UNCHANGED <<cfgVars, phase, tasks, user_ids, results, rows, seq, faults, sched>>

\* main.py:137-142: generate_report and the final prints.
generate_report ==
    /\ mpc = "report"
    /\ mpc' = "exit"
    /\ UNCHANGED <<cfgVars, phase, tasks, user_ids, results, pool, conns, rows, seq, faults, sched, hist>>

\* ---------------------------------------------------------------- direct calls
\* A client program that calls the CRUD methods of one manager directly, one call after
\* the other: used for the properties of the methods themselves.
Clients == {1}
CrudUsers == {1, 2}
CrudEmails == {Email(1), UpdatedEmail(Email(1))}
CrudIds == {1, 2}

CallArgs(op) ==
    CASE op = "create" -> {[IdleTask EXCEPT !.op = op, !.a1 = u, !.a2 = e] : u \in CrudUsers, e \in CrudEmails}
      [] op = "update" -> {[IdleTask EXCEPT !.op = op, !.a1 = i, !.a2 = e] : i \in CrudIds, e \in CrudEmails}
      [] OTHER -> {[IdleTask EXCEPT !.op = op, !.a1 = i] : i \in CrudIds}

\* The client calls create_user / read_user / update_user / delete_user once its
\* previous call has returned or raised.
Call(t) ==
    /\ mpc = "crud"
    /\ hist.calls < MaxCalls
    /\ ~Running(tasks[t])
    /\ \E op \in {"create", "read", "update", "delete"} : \E c \in CallArgs(op) :
          tasks' = [tasks EXCEPT ![t] = [c EXCEPT !.pc = "get"]]
    /\ hist' = [hist EXCEPT !.calls = @ + 1]
    /\ Turn(t, FALSE)
    /\ UNCHANGED <<cfgVars, runVars, pool, conns, rows, seq, faults>>

\* ---------------------------------------------------------------- specifications
NoHist == [close_pool_calls |-> 0, failed |-> {}, calls |-> 0, log |-> <<>>]
NoSched == [last |-> 0, preempts |-> 0]

\* main.py:120-130: the table exists and is empty, NoPoolManager() is constructed and
\* run_crud_tests(no_pool_manager, NUM_DATA_POINTS, NUM_WORKERS) is entered.
Init ==
    /\ n \in 0..MaxN
    /\ w \in 1..MaxW
    /\ mgr = "nopool"
    /\ mpc = "submit"
    /\ phase = 1
    /\ tasks = [t \in 1..(4 * n) |-> IdleTask]
    /\ user_ids = <<>>
    /\ results = <<>>
    /\ pool = NoPool
    /\ conns = <<>>
    /\ rows = {}
    /\ seq = 1
    /\ faults = 0
    /\ sched = NoSched
    /\ hist = NoHist

Next ==
    \/ SubmitPhase
    \/ JoinPhase
    \/ MakePool
    \/ close_pool
    \/ generate_report
    \/ \E t \in DOMAIN tasks : Start(t)
    \/ \E t \in DOMAIN tasks : NoPool_get_connection(t)
    \/ \E t \in DOMAIN tasks : NoPool_close_connection(t)
    \/ \E t \in DOMAIN tasks : Execute(t)
    \/ \E t \in DOMAIN tasks : Commit(t)
    \/ \E t \in DOMAIN tasks : Rollback(t)
    \/ \E t \in DOMAIN tasks : Getconn_key(t)
    \/ \E t \in DOMAIN tasks : Getconn_read(t)
    \/ \E t \in DOMAIN tasks : Getconn_pop(t)
    \/ \E t \in DOMAIN tasks : Getconn_cap(t)
    \/ \E t \in DOMAIN tasks : Getconn_reg(t)
    \/ \E t \in DOMAIN tasks : Putconn_key(t)
    \/ \E t \in DOMAIN tasks : Putconn_ret(t)
    \/ \E t \in DOMAIN tasks : Putconn_app(t)
    \/ \E t \in DOMAIN tasks : Putconn_del(t)

Spec == Init /\ [][Next]_vars

\* The main program under a fair scheduler: as long as some thread can take a step,
\* some thread does.  (The operating system runs every runnable thread, and a call of
\* the store or of the pool returns or fails.)
SpecFair == Init /\ [][Next]_vars /\ WF_vars(Next)

\* The pooled run with more workers than the pool has connections: the state of the
\* main program at main.py:134 after a no-pool run whose calls all succeeded.  This
\* specification explores the schedules in which the store does not fail and threads
\* switch only where they block (connect, execute, commit, close).  No statement or
\* commit fails in these schedules, so no call reaches the except clause and its
\* conn.rollback(); a get_connection that raises does so before the try.
InitPool ==
    /\ n = maxconn + 1
    /\ w = maxconn + 1
    /\ mgr = "pool"
    /\ mpc = "submit"
    /\ phase = 1
    /\ tasks = [t \in 1..(4 * n) |-> IdleTask]
    /\ user_ids = <<>>
    /\ results = <<>>
    /\ pool = NewPool(1)
    /\ conns = (1 :> NewConn)
    /\ rows = {}
    /\ seq = n + 1
    /\ faults = MaxFaults
    /\ sched = [last |-> 0, preempts |-> MaxPreempts]
    /\ hist = NoHist

NextPool ==
    \/ SubmitPhase
    \/ JoinPhase
    \/ close_pool
    \/ generate_report
    \/ \E t \in DOMAIN tasks : Start(t)
    \/ \E t \in DOMAIN tasks : Execute(t)
    \/ \E t \in DOMAIN tasks : Commit(t)
    \/ \E t \in DOMAIN tasks : Getconn_key(t)
    \/ \E t \in DOMAIN tasks : Getconn_read(t)
    \/ \E t \in DOMAIN tasks : Getconn_pop(t)
    \/ \E t \in DOMAIN tasks : Getconn_cap(t)
    \/ \E t \in DOMAIN tasks : Getconn_reg(t)
    \/ \E t \in DOMAIN tasks : Putconn_key(t)
    \/ \E t \in DOMAIN tasks : Putconn_ret(t)
    \/ \E t \in DOMAIN tasks : Putconn_app(t)
    \/ \E t \in DOMAIN tasks : Putconn_del(t)

SpecPool == InitPool /\ [][NextPool]_vars

\* The direct-call driver: a manager of either kind has been constructed over an empty
\* table.  (With one client thread the pool's free list is never found empty, so the
\* connect branch of getconn is no step of this specification.)
InitCrud ==
    /\ n = 1
    /\ w = 1
    /\ mgr \in {"nopool", "pool"}
    /\ mpc = "crud"
    /\ phase = 1
    /\ tasks = [t \in Clients |-> IdleTask]
    /\ user_ids = <<>>
    /\ results = <<>>
    /\ pool = IF mgr = "pool" THEN NewPool(1) ELSE NoPool
    /\ conns = IF mgr = "pool" THEN (1 :> NewConn) ELSE <<>>
    /\ rows = {}
    /\ seq = 1
    /\ faults = 0
    /\ sched = NoSched
    /\ hist = NoHist

NextCrud ==
    \/ \E t \in Clients : Call(t)
    \/ \E t \in Clients : NoPool_get_connection(t)
    \/ \E t \in Clients : NoPool_close_connection(t)
    \/ \E t \in Clients : Execute(t)
    \/ \E t \in Clients : Commit(t)
    \/ \E t \in Clients : Rollback(t)
    \/ \E t \in Clients : Getconn_key(t)
    \/ \E t \in Clients : Getconn_read(t)
    \/ \E t \in Clients : Getconn_pop(t)
    \/ \E t \in Clients : Putconn_key(t)
    \/ \E t \in Clients : Putconn_ret(t)
    \/ \E t \in Clients : Putconn_app(t)
    \/ \E t \in Clients : Putconn_del(t)

SpecCrud == InitCrud /\ [][NextCrud]_vars

\* Two worker threads that call create_user with the same username at the same time
\* (on a manager of either kind, over an empty table); the store itself does not fail.
InitDup ==
    /\ n = 2
    /\ w = 2
    /\ mgr \in {"nopool", "pool"}
    /\ mpc = "crud"
    /\ phase = 1
    /\ \E e \in CrudEmails :
          tasks = [t \in 1..2 |->
                      [IdleTask EXCEPT !.op = "create", !.a1 = 1, !.pc = "get",
                                       !.a2 = IF t = 1 THEN Email(1) ELSE e]]
    /\ user_ids = <<>>
    /\ results = <<>>
    /\ pool = IF mgr = "pool" THEN NewPool(1) ELSE NoPool
    /\ conns = IF mgr = "pool" THEN (1 :> NewConn) ELSE <<>>
    /\ rows = {}
    /\ seq = 1
    /\ faults = MaxFaults
    /\ sched = NoSched
    /\ hist = NoHist

NextDup ==
    \/ \E t \in DOMAIN tasks : NoPool_get_connection(t)
    \/ \E t \in DOMAIN tasks : NoPool_close_connection(t)
    \/ \E t \in DOMAIN tasks : Execute(t)
    \/ \E t \in DOMAIN tasks : Commit(t)
    \/ \E t \in DOMAIN tasks : Rollback(t)
    \/ \E t \in DOMAIN tasks : Getconn_key(t)
    \/ \E t \in DOMAIN tasks : Getconn_read(t)
    \/ \E t \in DOMAIN tasks : Getconn_pop(t)
    \/ \E t \in DOMAIN tasks : Getconn_cap(t)
    \/ \E t \in DOMAIN tasks : Getconn_reg(t)
    \/ \E t \in DOMAIN tasks : Putconn_key(t)
    \/ \E t \in DOMAIN tasks : Putconn_ret(t)
    \/ \E t \in DOMAIN tasks : Putconn_app(t)
    \/ \E t \in DOMAIN tasks : Putconn_del(t)

SpecDup == InitDup /\ [][NextDup]_vars

\* ---------------------------------------------------------------- properties
\* The handles that are checked out: obtained by a get_connection that has returned and
\* not yet passed to close_connection.
Holding(tr) == tr.pc \in {"exec", "commit", "rollback", "close"}
CheckedOut == {tasks[t].conn : t \in {t2 \in DOMAIN tasks : Holding(tasks[t2])}}

\* The run of run_crud_tests in progress has returned its results mapping.
RunReturned == Len(results) = 4

\* A call of phase p has started to execute.
Started(tr) == tr.pc \notin {"idle", "queued"}
Completed(tr) == tr.pc \in {"returned", "raised", "done"}

\* C1: against a PoolManager, the number of handles checked out of the pool never
\* exceeds the pool's maximum, whatever the number of workers.
C1_PoolCapacity == mgr = "pool" => Cardinality(CheckedOut) <= maxconn

\* C2: a call that has returned or raised has passed the handle it obtained to
\* close_connection exactly once (and called it not at all if it obtained none); a
\* call in progress has not called it more often than it obtained a handle.
C2_ScopedAcquisition ==
    \A t \in DOMAIN tasks :
        /\ Terminal(tasks[t]) /\ tasks[t].got # 0 => tasks[t].closes = 1 /\ tasks[t].rel = tasks[t].got
        /\ tasks[t].got = 0 => tasks[t].closes = 0
        /\ tasks[t].closes <= 1

\* C2 witness: a read_user whose statement failed has raised, having obtained a handle
\* and passed it to close_connection once.
C2_Witness ==
    \E t \in DOMAIN tasks :
        /\ tasks[t].pc = "raised" /\ tasks[t].err = "Store"
        /\ tasks[t].op = "read" /\ tasks[t].got # 0 /\ tasks[t].closes = 1

\* C3: once a call of a phase has started to execute, every call of every earlier
\* phase has completed.
C3_PhaseBarrier ==
    \A t1, t2 \in DOMAIN tasks :
        mpc # "crud" /\ PhaseOf(t1) < PhaseOf(t2) /\ Started(tasks[t2]) => Completed(tasks[t1])

\* C3 witness: a call of the update phase is executing after a read call has failed.
C3_Witness ==
    /\ mpc = "wait" /\ phase = 3 /\ 2 \in hist.failed
    /\ \E t \in PhaseTasks(3) : Running(tasks[t])

\* C4: if a call of some phase has raised, run_crud_tests does not return a results
\* mapping.
C4_ErrorsPropagate == RunReturned => hist.failed = {}

\* C5: no call of a phase is started after a call of an earlier phase has failed.
C5_FailureHalts ==
    \A t \in DOMAIN tasks :
        mpc # "crud" /\ Started(tasks[t]) /\ tasks[t].pc # "done"
            => \A p \in 1..(PhaseOf(t) - 1) : p \notin hist.failed

\* C6: a run in which no call failed has executed one call per record in each of the
\* four phases, and the ids collected from the create phase are pairwise distinct.
C6_ExactlyNPerPhase ==
    RunReturned /\ hist.failed = {} =>
        /\ \A p \in 1..4 : Cardinality({t \in PhaseTasks(p) : tasks[t].pc = "done"}) = n
        /\ Len(user_ids) = n
        /\ \A i, j \in 1..n : i # j => user_ids[i] # user_ids[j]
        /\ \A i \in 1..n : user_ids[i] # 0

\* C6 witness: a pooled run of two records has returned without a failure.
C6_Witness == RunReturned /\ hist.failed = {} /\ n = 2 /\ mgr = "pool"

\* C7: a get_connection made while as many handles as the pool allows are checked out
\* does not fail (it waits for a handle).
C7_BlocksAtCapacity ==
    \A t \in DOMAIN tasks :
        ~(tasks[t].pc = "raised" /\ tasks[t].err = "PoolExhausted"
          /\ Cardinality(CheckedOut) >= maxconn)

\* C8: with no more workers than the pool's maximum, no get_connection finds the pool
\* exhausted.
C8_NeverExhausted ==
    w <= maxconn => \A t \in DOMAIN tasks : tasks[t].err # "PoolExhausted"

\* C9: when the main program has ended with the PoolManager constructed, close_pool has
\* been called exactly once; it is called when no call is in progress and none starts
\* after it.
C9_ClosePoolOnce ==
    /\ mpc \in {"exit", "crashed"} /\ pool.built => hist.close_pool_calls = 1
    /\ hist.close_pool_calls <= 1
    /\ pool.closed => \A t \in DOMAIN tasks : ~Running(tasks[t]) /\ tasks[t].pc # "queued"

\* The calls of the log at i, i+1, ... are the given operations, all successful.
Ok(i, op) == i \in DOMAIN hist.log /\ hist.log[i].op = op /\ hist.log[i].out = "ok"

\* C10: in consecutive successful calls on one record, read_user after create_user(u, e)
\* yields the record (id, u, e); read_user after create_user(u, e) and update_user(id,
\* e2) yields (id, u, e2); read_user after delete_user(id) yields no record.
C10_RoundTrip ==
    \A i \in DOMAIN hist.log :
        LET c == hist.log[i]
            at(k) == hist.log[i + k]
        IN /\ Ok(i, "create") /\ Ok(i + 1, "read") /\ at(1).a1 = c.res.id
                => at(1).res = [id |-> c.res.id, username |-> c.a1, email |-> c.a2]
           /\ Ok(i, "create") /\ Ok(i + 1, "update") /\ Ok(i + 2, "read")
              /\ at(1).a1 = c.res.id /\ at(2).a1 = c.res.id
                => at(2).res = [id |-> c.res.id, username |-> c.a1, email |-> at(1).a2]
           /\ Ok(i, "delete") /\ Ok(i + 1, "read") /\ at(1).a1 = c.a1
                => at(1).res = NoRow

\* C10 witness: a record has been created, updated to another email and read back.
C10_Witness ==
    /\ Len(hist.log) = 3
    /\ Ok(1, "create") /\ Ok(2, "update") /\ Ok(3, "read")
    /\ hist.log[2].a1 = hist.log[1].res.id /\ hist.log[3].a1 = hist.log[1].res.id
    /\ hist.log[2].a2 # hist.log[1].a2
    /\ hist.log[3].res.email = hist.log[2].a2

\* C11: when two create_user calls with the same username have both finished, exactly
\* one has succeeded and the other has failed with a unique violation, the table holds
\* exactly one row of that username, and the failed call has given its handle back
\* with no write of its transaction left pending.
C11_DuplicateCreate ==
    (mpc = "crud" /\ n = 2 /\ \A t \in DOMAIN tasks : Terminal(tasks[t])) =>
        /\ \E t \in DOMAIN tasks :
              /\ tasks[t].out = "ok"
              /\ \A t2 \in DOMAIN tasks \ {t} :
                    /\ tasks[t2].err = "UniqueViolation"
                    /\ tasks[t2].closes = 1 /\ tasks[t2].rel = tasks[t2].got
        /\ Cardinality({r \in rows : r.username = 1}) = 1
        /\ \A c \in DOMAIN conns : conns[c].pending = <<>>

\* C12: an update_user call that has returned normally named an id that is in the
\* table: a call with an id absent from the table does not return normally.  (One
\* client calls at a time, and update_user removes no row, so the id of a call that has
\* just returned is in the table now iff it was when the call was made.)
C12_UpdateAbsentFails ==
    \A t \in DOMAIN tasks :
        mpc = "crud" /\ tasks[t].op = "update" /\ tasks[t].pc = "returned"
            => \E r \in rows : r.id = tasks[t].a1

\* C13: no two calls hold the same handle at the same time (between the return of
\* their get_connection and their call of close_connection), and a call that holds a
\* handle holds one that some get_connection gave it.
C13_HandleNotShared ==
    \A t1, t2 \in DOMAIN tasks :
        /\ Holding(tasks[t1]) => tasks[t1].conn # 0 /\ tasks[t1].conn = tasks[t1].got
        /\ t1 # t2 /\ Holding(tasks[t1]) /\ Holding(tasks[t2]) => tasks[t1].conn # tasks[t2].conn

\* The call is inside the pool's getconn or putconn: it has entered and not yet left.
InPool(tr) == tr.pc \in {"g_read", "g_pop", "g_cap", "g_reg", "p_ret", "p_app", "p_del"}

\* C14: at most one worker at a time is inside a checkout (getconn) or a return
\* (putconn) of the pool.
C14_PoolMutex ==
    \A t1, t2 \in DOMAIN tasks : InPool(tasks[t1]) /\ InPool(tasks[t2]) => t1 = t2

\* C15: a mutating call that is about to release its handle has no write pending on
\* it (the transaction was committed or rolled back first), and a mutating call that
\* has raised has left no change in the table: no row of the username a create_user
\* was to insert, and no row carrying the email an update_user was to set.  (The
\* usernames and updated emails of a run are distinct per record, so such a row is the
\* work of that call.)
C15_CommitOrRollbackBeforeRelease ==
    \A t \in DOMAIN tasks :
        LET tr == tasks[t]
        IN mpc # "crud" /\ Mutating(tr.op) =>
              /\ tr.pc = "close" => conns[tr.conn].pending = <<>>
              /\ tr.pc = "raised" /\ tr.op = "create" => ~\E r \in rows : r.username = tr.a1
              /\ tr.pc = "raised" /\ tr.op = "update"
                    => ~\E r \in rows : r.id = tr.a1 /\ r.email = tr.a2

\* C16: once the create phase has been collected, user_ids[i] is the id of record i
\* (the row of that id carries the username of data_points[i]), and the update call
\* submitted for record i carries user_ids[i] and the updated email of that record.
C16_IdsInSubmissionOrder ==
    mpc # "crud" /\ Len(user_ids) = n =>
        \A i \in 1..n :
            LET u == Username(RunOf(mgr), i)
                t == tasks[Tid(3, i)]
            IN /\ \A r \in rows : r.id = user_ids[i] => r.username = u
               /\ t.op = "update" => t.a1 = user_ids[i] /\ t.a2 = UpdatedEmail(Email(u))

\* C16 witness: the second record's create call got the smaller id (it reached the
\* store first), both rows are in the table and the update calls are running.
C16_Witness ==
    /\ n = 2 /\ Len(user_ids) = 2 /\ user_ids[2] < user_ids[1]
    /\ phase = 3 /\ tasks[Tid(3, 1)].pc = "exec" /\ tasks[Tid(3, 2)].pc = "exec"
    /\ \A i \in 1..2 : \E r \in rows : r.id = user_ids[i]

\* C17: when a phase in which a call failed has ended (the failure has left
\* run_crud_tests, or the function has gone on), every call submitted in that phase has
\* run to completion: none is left queued or in progress.
C17_PeersNotAbandoned ==
    mpc # "crud" => \A p \in hist.failed : \A t \in PhaseTasks(p) : tasks[t].pc = "done"

\* C17 witness: one worker, two records; the first create call failed while the second
\* was still queued, the second then ran and committed its row, and only then did the
\* failure leave run_crud_tests.
C17_Witness ==
    /\ mpc = "crashed" /\ mgr = "nopool" /\ w = 1 /\ n = 2 /\ 1 \in hist.failed
    /\ \E r \in rows : r.username = Username(1, 2)

\* The main thread is between phases: the with block of a phase has been left (or none
\* entered yet) and the next one has not started.
AtBoundary == mpc \in {"submit", "mkpool", "close_pool", "crashed"}

\* C18: between phases no call holds a handle; the pool of a PoolManager has no handle
\* checked out (nothing is registered in _used), and every connection a NoPoolManager
\* call opened has been closed.
C18_QuiescentAtBoundary ==
    AtBoundary =>
        /\ \A t \in DOMAIN tasks : ~Holding(tasks[t]) /\ tasks[t].conn = 0
        /\ mgr = "pool" => DOMAIN pool.used = {}
        /\ mgr = "nopool" => \A c \in DOMAIN conns : ~conns[c].open

\* C19: whenever run_crud_tests is entered it eventually has returned or raised, and
\* when it has returned, the results mapping holds the keys create, read, update and
\* delete, each written once, in that order.
C19_Terminates ==
    /\ [](RunReturned => results = Phases)
    /\ (mpc = "submit" /\ phase = 1) ~> (RunReturned \/ mpc = "crashed")

\* C19 witness: the pooled run of two records with two workers has returned its four
\* results.
C19_Witness ==
    mgr = "pool" /\ n = 2 /\ w = 2 /\ mpc = "close_pool" /\ results = Phases

====
